---- MODULE Spec2Model ----
(***************************************************************************)
(* Model of the notebook dynamo-with-stream.ipynb.                         *)
(*                                                                         *)
(* Part 1: the stream shard walker cell (for shard ... while loop): one    *)
(* sequential process that walks the shard listing, fetching batches of    *)
(* change records from the DynamoDB Streams service.  The service is the   *)
(* environment: every call either returns or raises, and a returned        *)
(* get_records response carries any batch of the shard's next records and  *)
(* either a fresh next cursor or none.                                     *)
(*                                                                         *)
(* Part 2: the table cells (create, conditional put, update, conditional   *)
(* update, delete), which the user may run in any order.                   *)
(*                                                                         *)
(* Part 3: several clients ("another thread") issuing the conditional      *)
(* update of Moby Dick at the same time.                                   *)
(***************************************************************************)
EXTENDS Naturals, Sequences, FiniteSets

(* ------------------------------ bounds --------------------------------- *)
NumClients == 2
NumShards == 2
MaxRecords == 2
MaxBatch == 2

(* ------------------------- program constants --------------------------- *)
PollLimit == 150

VARIABLES
    pc,               \* position of the walker cell
    shardIdx,         \* index of the shard of the for loop (0: not started)
    iterator,         \* Python variable iterator
    next_iterator,    \* Python variable next_iterator
    get_records_res,  \* Python variable get_records_res
    loop,             \* Python variable loop
    count,            \* Python variable count
    emitted,          \* record lines printed, per shard
    report,           \* how each shard's loop was reported to end
    raised,           \* exception that left the cell, "none" if none
    lastCursor,       \* history: cursor passed to the latest get_records
    usedUpTo,         \* history: highest issue number of the cursors passed to earlier
                      \* get_records calls (this shard)
    fetched,          \* history: records returned by get_records (this shard)
    progress,         \* history: iterations of this shard that printed records
    fetchFailed,      \* history: some service call of the walker failed
    tableExists,      \* service: the table 'books' exists
    books,            \* service: the items of the table, by key
    lastCell,         \* the table cell run last, "none" before the first
    svcError,         \* error code the service answered that run with
    outcome,          \* how that run of the cell ended
    cellRaised,       \* exception that left that run of the cell
    prevCell,         \* history: the cell run before lastCell
    prevOutcome,      \* history: how that run ended
    clientPc,         \* each concurrent client's position
    clientResult,     \* what the service answered each client
    writers,          \* history: the clients whose update was applied
    startItem         \* history: Moby Dick's item before any client issued

walkerVars == <<pc, shardIdx, iterator, next_iterator, get_records_res, loop,
                count, emitted, report, raised, lastCursor, usedUpTo,
                fetched, progress, fetchFailed>>

cellVars == <<tableExists, books, lastCell, svcError, outcome, cellRaised,
              prevCell, prevOutcome>>

clientVars == <<clientPc, clientResult, writers, startItem>>

vars == <<walkerVars, cellVars, clientVars>>

(* --------------------------- service data ------------------------------ *)
EventNames == <<"INSERT", "MODIFY", "REMOVE">>
Authors == <<"Jill", "Herman Melville", "Heiwad">>
Titles == <<"Ice Cream Part 2", "Moby Dick", "The Guide to Travel and Crab Cakes">>

\* The i-th change record of shard s, in the shape get_records returns it.
StreamRecord(s, i) ==
    [eventName |-> EventNames[((s + i) % 3) + 1],
     dynamodb |-> [Keys |-> [Author |-> [S |-> Authors[(i % 3) + 1]],
                             Title |-> [S |-> Titles[((s + 2 * i) % 3) + 1]]]]]

ShardRecords(s) == [i \in 1..MaxRecords |-> StreamRecord(s, i)]

ShardListing == [i \in 1..NumShards |-> i]

NoCursor == [shard |-> 0, seq |-> 0, pos |-> 0]

NoResponse == [Records |-> <<>>, NextShardIterator |-> NoCursor]

\* get_shard_iterator(..., ShardIteratorType='TRIM_HORIZON')['ShardIterator']
TrimHorizonIterator(s) == [shard |-> s, seq |-> 1, pos |-> 0]

\* The responses get_records may return for a cursor: a batch of the next
\* k records of the cursor's shard and a fresh cursor behind them, or no
\* 'NextShardIterator' key.
GetRecordsResponses(cur) ==
    LET all == ShardRecords(cur.shard)
        left == Len(all) - cur.pos
        room == IF MaxBatch <= left THEN MaxBatch ELSE left
    IN  UNION { { [Records |-> SubSeq(all, cur.pos + 1, cur.pos + k),
                   NextShardIterator |-> nxt] :
                    nxt \in {NoCursor,
                             [shard |-> cur.shard, seq |-> cur.seq + 1,
                              pos |-> cur.pos + k]} } :
                k \in 0..room }

HasNext(res) == res.NextShardIterator # NoCursor

\* The service issues the cursors of a shard in the order of their issue
\* numbers, so the cursors already passed to get_records are summed up by
\* the highest issue number among them: hi, with cur added.
Remember(hi, cur) == IF cur = NoCursor \/ cur.seq <= hi THEN hi ELSE cur.seq

\* cur was not passed to get_records before: it was issued after every
\* cursor that was.
Unused(cur, hi) == cur.seq > hi

(* --------------------------- walker helpers ---------------------------- *)
\* print ('    ' + eventName + ' - ' + author + ' - ' + title)
FormatLine(record) ==
    "    " \o record.eventName \o " - "
           \o record.dynamodb.Keys.Author.S \o " - "
           \o record.dynamodb.Keys.Title.S

FormatAll(records) == [i \in 1..Len(records) |-> FormatLine(records[i])]

\* if (len(records) > 0): for record in ...: print(...)
EmitRecords(out, res) ==
    IF Len(res.Records) > 0 THEN out \o FormatAll(res.Records) ELSE out

\* if count > 150
LimitReached(c) == c > PollLimit

(* ----------------------------- table data ------------------------------ *)
\* Error codes of botocore's ClientError: ce.response['Error']['Code'].
CCF == "ConditionalCheckFailedException"
InUse == "ResourceInUseException"
NotFound == "ResourceNotFoundException"
\* Any other code (throttling, authorization, network).
OtherCode == "AccessDeniedException"

\* Items are named by their key (Author, Title); an item's non-key
\* attributes are a set of <<name, value>> pairs.
JillKey == <<"Jill", "Ice Cream Part 2">>
MobyKey == <<"Herman Melville", "Moby Dick">>
Keys == {JillKey, MobyKey}
NoItem == [exists |-> FALSE, attrs |-> {}]
EmptyTable == [k \in Keys |-> NoItem]

Init ==
    /\ pc = "start"
    /\ shardIdx = 0
    /\ iterator = NoCursor
    /\ next_iterator = NoCursor
    /\ get_records_res = NoResponse
    /\ loop = FALSE
    /\ count = 0
    /\ emitted = [s \in 1..NumShards |-> <<>>]
    /\ report = [s \in 1..NumShards |-> "none"]
    /\ raised = "none"
    /\ lastCursor = NoCursor
    /\ usedUpTo = 0
    /\ fetched = <<>>
    /\ progress = 0
    /\ fetchFailed = FALSE
    /\ tableExists = FALSE
    /\ books = EmptyTable
    /\ lastCell = "none"
    /\ svcError = "none"
    /\ outcome = "none"
    /\ cellRaised = "none"
    /\ prevCell = "none"
    /\ prevOutcome = "none"
    /\ clientPc = [c \in 1..NumClients |-> "ready"]
    /\ clientResult = [c \in 1..NumClients |-> "pending"]
    /\ writers = {}
    /\ startItem = NoItem

(* --------------------------- walker actions ---------------------------- *)
\* list_streams and describe_stream return the shard listing.
ListShards ==
    /\ pc = "start"
    /\ pc' = "for"
    /\ UNCHANGED <<shardIdx, iterator, next_iterator, get_records_res, loop,
                   count, emitted, report, raised, lastCursor, usedUpTo,
                   fetched, progress, fetchFailed>>
    /\ UNCHANGED <<cellVars, clientVars>>

\* list_streams or describe_stream raises.
ListShardsFail ==
    /\ pc = "start"
    /\ pc' = "error"
    /\ raised' = "ServiceError"
    /\ fetchFailed' = TRUE
    /\ UNCHANGED <<shardIdx, iterator, next_iterator, get_records_res, loop,
                   count, emitted, report, lastCursor, usedUpTo,
                   fetched, progress>>
    /\ UNCHANGED <<cellVars, clientVars>>

\* for shard in ...: the next shard of the listing.
ForShard ==
    /\ pc = "for"
    /\ shardIdx < Len(ShardListing)
    /\ shardIdx' = shardIdx + 1
    /\ pc' = "get_iterator"
    /\ UNCHANGED <<iterator, next_iterator, get_records_res, loop, count,
                   emitted, report, raised, lastCursor, usedUpTo,
                   fetched, progress, fetchFailed>>
    /\ UNCHANGED <<cellVars, clientVars>>

\* The listing is exhausted: print("Done!").
ForExit ==
    /\ pc = "for"
    /\ shardIdx >= Len(ShardListing)
    /\ pc' = "done"
    /\ UNCHANGED <<shardIdx, iterator, next_iterator, get_records_res, loop,
                   count, emitted, report, raised, lastCursor, usedUpTo,
                   fetched, progress, fetchFailed>>
    /\ UNCHANGED <<cellVars, clientVars>>

\* iterator = ddbstreams.get_shard_iterator(...)['ShardIterator']
GetShardIterator ==
    /\ pc = "get_iterator"
    /\ iterator' = TrimHorizonIterator(ShardListing[shardIdx])
    /\ pc' = "first_fetch"
    /\ lastCursor' = NoCursor
    /\ usedUpTo' = 0
    /\ fetched' = <<>>
    /\ progress' = 0
    /\ UNCHANGED <<shardIdx, next_iterator, get_records_res, loop, count,
                   emitted, report, raised, fetchFailed>>
    /\ UNCHANGED <<cellVars, clientVars>>

\* get_shard_iterator raises: nothing catches it.
GetShardIteratorFail ==
    /\ pc = "get_iterator"
    /\ pc' = "error"
    /\ raised' = "ServiceError"
    /\ fetchFailed' = TRUE
    /\ UNCHANGED <<shardIdx, iterator, next_iterator, get_records_res, loop,
                   count, emitted, report, lastCursor, usedUpTo,
                   fetched, progress>>
    /\ UNCHANGED <<cellVars, clientVars>>

\* get_records_res = ddbstreams.get_records(ShardIterator=iterator)
\* print("Checking " + shardId); loop = True; count = 0
FirstFetch ==
    /\ pc = "first_fetch"
    /\ \E res \in GetRecordsResponses(iterator) :
          /\ get_records_res' = res
          /\ fetched' = fetched \o res.Records
    /\ usedUpTo' = Remember(usedUpTo, lastCursor)
    /\ lastCursor' = iterator
    /\ loop' = TRUE
    /\ count' = 0
    /\ pc' = "while"
    /\ UNCHANGED <<shardIdx, iterator, next_iterator, emitted, report, raised,
                   progress, fetchFailed>>
    /\ UNCHANGED <<cellVars, clientVars>>

\* The first get_records raises: nothing catches it.
FirstFetchFail ==
    /\ pc = "first_fetch"
    /\ usedUpTo' = Remember(usedUpTo, lastCursor)
    /\ lastCursor' = iterator
    /\ pc' = "error"
    /\ raised' = "ServiceError"
    /\ fetchFailed' = TRUE
    /\ UNCHANGED <<shardIdx, iterator, next_iterator, get_records_res, loop,
                   count, emitted, report, fetched, progress>>
    /\ UNCHANGED <<cellVars, clientVars>>

\* IterateFetch without the test of the polling limit (the walk is followed
\* a little beyond the limit only).
IterateFetchNoLimit ==
    /\ pc = "while"
    /\ loop
    /\ HasNext(get_records_res)
    /\ count <= PollLimit + 1
    /\ emitted' = [emitted EXCEPT ![shardIdx] = EmitRecords(@, get_records_res)]
    /\ progress' = IF Len(get_records_res.Records) > 0 THEN progress + 1 ELSE progress
    /\ count' = count + 1
    /\ next_iterator' = get_records_res.NextShardIterator
    /\ \E res \in GetRecordsResponses(next_iterator') :
          /\ get_records_res' = res
          /\ fetched' = fetched \o res.Records
    /\ usedUpTo' = Remember(usedUpTo, lastCursor)
    /\ lastCursor' = next_iterator'
    /\ UNCHANGED <<pc, shardIdx, iterator, loop, report, raised, fetchFailed>>
    /\ UNCHANGED <<cellVars, clientVars>>

\* IterateFetch fetching with iterator instead of next_iterator.
IterateFetchReuse ==
    /\ pc = "while"
    /\ loop
    /\ HasNext(get_records_res)
    /\ emitted' = [emitted EXCEPT ![shardIdx] = EmitRecords(@, get_records_res)]
    /\ progress' = IF Len(get_records_res.Records) > 0 THEN progress + 1 ELSE progress
    /\ count' = count + 1
    /\ next_iterator' = get_records_res.NextShardIterator
    /\ \E res \in GetRecordsResponses(iterator) :
          /\ get_records_res' = res
          /\ fetched' = fetched \o res.Records
    /\ usedUpTo' = Remember(usedUpTo, lastCursor)
    /\ lastCursor' = iterator
    /\ IF LimitReached(count')
         THEN /\ loop' = FALSE
              /\ report' = [report EXCEPT ![shardIdx] = "limit"]
         ELSE UNCHANGED <<loop, report>>
    /\ UNCHANGED <<pc, shardIdx, iterator, raised, fetchFailed>>
    /\ UNCHANGED <<cellVars, clientVars>>

\* IterateFetch with count = count + 1 inside the if (len(records) > 0) block.
IterateFetchCountOnRecords ==
    /\ pc = "while"
    /\ loop
    /\ HasNext(get_records_res)
    /\ emitted' = [emitted EXCEPT ![shardIdx] = EmitRecords(@, get_records_res)]
    /\ progress' = IF Len(get_records_res.Records) > 0 THEN progress + 1 ELSE progress
    /\ count' = IF Len(get_records_res.Records) > 0 THEN count + 1 ELSE count
    /\ next_iterator' = get_records_res.NextShardIterator
    /\ \E res \in GetRecordsResponses(next_iterator') :
          /\ get_records_res' = res
          /\ fetched' = fetched \o res.Records
    /\ usedUpTo' = Remember(usedUpTo, lastCursor)
    /\ lastCursor' = next_iterator'
    /\ IF LimitReached(count')
         THEN /\ loop' = FALSE
              /\ report' = [report EXCEPT ![shardIdx] = "limit"]
         ELSE UNCHANGED <<loop, report>>
    /\ UNCHANGED <<pc, shardIdx, iterator, raised, fetchFailed>>
    /\ UNCHANGED <<cellVars, clientVars>>


\* One iteration of the while loop whose response has a next cursor and
\* whose get_records returns: print the batch, count, fetch, test the limit.
IterateFetch ==
    /\ pc = "while"
    /\ loop
    /\ HasNext(get_records_res)
    /\ emitted' = [emitted EXCEPT ![shardIdx] = EmitRecords(@, get_records_res)]
    /\ progress' = IF Len(get_records_res.Records) > 0 THEN progress + 1 ELSE progress
    /\ count' = count + 1
    /\ next_iterator' = get_records_res.NextShardIterator
    /\ \E res \in GetRecordsResponses(next_iterator') :
          /\ get_records_res' = res
          /\ fetched' = fetched \o res.Records
    /\ usedUpTo' = Remember(usedUpTo, lastCursor)
    /\ lastCursor' = next_iterator'
    /\ IF LimitReached(count')
         THEN /\ loop' = FALSE
              /\ report' = [report EXCEPT ![shardIdx] = "limit"]
         ELSE UNCHANGED <<loop, report>>
    /\ UNCHANGED <<pc, shardIdx, iterator, raised, fetchFailed>>
    /\ UNCHANGED <<cellVars, clientVars>>

\* IterateFetchFail with the exception caught and the loop carrying on.
IterateFetchRetry ==
    /\ pc = "while"
    /\ loop
    /\ HasNext(get_records_res)
    /\ emitted' = [emitted EXCEPT ![shardIdx] = EmitRecords(@, get_records_res)]
    /\ progress' = IF Len(get_records_res.Records) > 0 THEN progress + 1 ELSE progress
    /\ count' = count + 1
    /\ next_iterator' = get_records_res.NextShardIterator
    /\ usedUpTo' = Remember(usedUpTo, lastCursor)
    /\ lastCursor' = next_iterator'
    /\ fetchFailed' = TRUE
    /\ IF LimitReached(count')
         THEN /\ loop' = FALSE
              /\ report' = [report EXCEPT ![shardIdx] = "limit"]
         ELSE UNCHANGED <<loop, report>>
    /\ UNCHANGED <<pc, shardIdx, iterator, get_records_res, raised, fetched>>
    /\ UNCHANGED <<cellVars, clientVars>>

\* The same iteration when its get_records raises: nothing catches it.
IterateFetchFail ==
    /\ pc = "while"
    /\ loop
    /\ HasNext(get_records_res)
    /\ emitted' = [emitted EXCEPT ![shardIdx] = EmitRecords(@, get_records_res)]
    /\ progress' = IF Len(get_records_res.Records) > 0 THEN progress + 1 ELSE progress
    /\ count' = count + 1
    /\ next_iterator' = get_records_res.NextShardIterator
    /\ usedUpTo' = Remember(usedUpTo, lastCursor)
    /\ lastCursor' = next_iterator'
    /\ pc' = "error"
    /\ raised' = "ServiceError"
    /\ fetchFailed' = TRUE
    /\ UNCHANGED <<shardIdx, iterator, get_records_res, loop, report, fetched>>
    /\ UNCHANGED <<cellVars, clientVars>>

\* One iteration whose response has no 'NextShardIterator': print the
\* batch, report the shard closed, loop = False.
IterateClosed ==
    /\ pc = "while"
    /\ loop
    /\ ~HasNext(get_records_res)
    /\ emitted' = [emitted EXCEPT ![shardIdx] = EmitRecords(@, get_records_res)]
    /\ progress' = IF Len(get_records_res.Records) > 0 THEN progress + 1 ELSE progress
    /\ report' = [report EXCEPT ![shardIdx] = "closed"]
    /\ loop' = FALSE
    /\ UNCHANGED <<pc, shardIdx, iterator, next_iterator, get_records_res,
                   count, raised, lastCursor, usedUpTo, fetched, fetchFailed>>
    /\ UNCHANGED <<cellVars, clientVars>>

\* while loop: with loop False, back to the for statement.
LeaveShard ==
    /\ pc = "while"
    /\ ~loop
    /\ pc' = "for"
    /\ UNCHANGED <<shardIdx, iterator, next_iterator, get_records_res, loop,
                   count, emitted, report, raised, lastCursor, usedUpTo,
                   fetched, progress, fetchFailed>>
    /\ UNCHANGED <<cellVars, clientVars>>

Next ==
    \/ ListShards
    \/ ListShardsFail
    \/ ForShard
    \/ ForExit
    \/ GetShardIterator
    \/ GetShardIteratorFail
    \/ FirstFetch
    \/ FirstFetchFail
    \/ IterateFetch
    \/ IterateFetchFail
    \/ IterateClosed
    \/ LeaveShard

Spec == Init /\ [][Next]_vars


\* The walker under a service whose every call returns: the failure
\* actions are left out, and the cell takes its next step whenever it has one.
NextReturns ==
    \/ ListShards
    \/ ForShard
    \/ ForExit
    \/ GetShardIterator
    \/ FirstFetch
    \/ IterateFetch
    \/ IterateClosed
    \/ LeaveShard

ReturnsSpec == Init /\ [][NextReturns]_vars /\ WF_vars(NextReturns)

(* ----------------------------- table cells ----------------------------- *)
\* UpdateExpression 'SET name = value'
SetAttr(attrs, name, value) ==
    {a \in attrs : a[1] # name} \cup {<<name, value>>}

\* ConditionExpression 'name = value': false of a missing item or attribute.
AttrEquals(item, name, value) == item.exists /\ <<name, value>> \in item.attrs

\* ExpressionAttributeValues of the two cells' update_item calls.
UpdateValues == [rating |-> 5, ver |-> 2]

\* The conditional update with :newver equal to :ver.
CondUpdateValuesSameVersion == [rating |-> 1, ver |-> 2, newver |-> 2]

CondUpdateValues == [rating |-> 1, ver |-> 2, newver |-> 3]

\* What the batch load may write for Moby Dick ('Rating' only if the file has it).
LoadableAttrs == {{}, {<<"Rating", 4>>}}

\* What the service may answer: "none" is success.
CreateTableAnswers ==
    {OtherCode} \cup (IF tableExists THEN {InUse} ELSE {"none"})

ItemCallAnswers(condition) ==
    {OtherCode} \cup (IF ~tableExists THEN {NotFound}
                      ELSE IF condition THEN {"none"} ELSE {CCF})

DeleteTableAnswers ==
    {OtherCode} \cup (IF tableExists THEN {"none"} ELSE {NotFound})

\* How each cell ends for the service's answer err: what it prints and the
\* exception that leaves it.
Ended(out, exc) == [outcome |-> out, raised |-> exc]

\* A cell with no try statement.
NoHandler(err) ==
    IF err = "none" THEN Ended("ok", "none") ELSE Ended("raised", err)

\* The create cell's handler, re-raising every ClientError.
CreateTableHandlerReraise(err) ==
    IF err = "none" THEN Ended("ok", "none") ELSE Ended("raised", err)

\* except ClientError as ce: if code == 'ResourceInUseException': print(...)
\*                           else: print(ce)
CreateTableHandler(err) ==
    IF err = "none" THEN Ended("ok", "none")
    ELSE IF err = InUse THEN Ended("noop", "none")
    ELSE Ended("logged", "none")

\* except ClientError as ce: if code == 'ConditionalCheckFailedException': print(...)
PutItemCondHandler(err) ==
    IF err = "none" THEN Ended("ok", "none")
    ELSE IF err = CCF THEN Ended("handled", "none")
    ELSE Ended("swallowed", "none")

\* except ClientError as ce: if code == 'ConditionalCheckFailedException': print(...)
\*                           else: print(ce)
CondUpdateRepeatHandler(err) ==
    IF err = "none" THEN Ended("ok", "none")
    ELSE IF err = CCF THEN Ended("handled", "none")
    ELSE Ended("logged", "none")

\* except ClientError as ce: if code == 'ResourceNotFoundException': print(...)
DeleteTableHandler(err) ==
    IF err = "none" THEN Ended("ok", "none")
    ELSE IF err = NotFound THEN Ended("noop", "none")
    ELSE Ended("swallowed", "none")

\* The record of a cell's run.
Ran(cell, err, end) ==
    /\ lastCell' = cell
    /\ svcError' = err
    /\ outcome' = end.outcome
    /\ cellRaised' = end.raised
    /\ prevCell' = lastCell
    /\ prevOutcome' = outcome

\* The create table cell.
CreateTableCell ==
    /\ \E err \in CreateTableAnswers :
          /\ IF err = "none"
               THEN tableExists' = TRUE /\ books' = EmptyTable
               ELSE UNCHANGED <<tableExists, books>>
          /\ Ran("create", err, CreateTableHandler(err))
    /\ UNCHANGED <<walkerVars, clientVars>>

\* The conditional put cell: put Jill's item if attribute_not_exists(Title).
PutItemCondCell ==
    /\ \E err \in ItemCallAnswers(~books[JillKey].exists) :
          /\ IF err = "none"
               THEN books' = [books EXCEPT ![JillKey] = [exists |-> TRUE, attrs |-> {}]]
               ELSE UNCHANGED books
          /\ Ran("cond_put", err, PutItemCondHandler(err))
    /\ UNCHANGED <<tableExists, walkerVars, clientVars>>

\* The batch write cell, as far as it writes Moby Dick: a put replaces the item.
LoadBooksCell ==
    /\ \E err \in ItemCallAnswers(TRUE) :
          /\ IF err = "none"
               THEN \E a \in LoadableAttrs :
                       books' = [books EXCEPT ![MobyKey] = [exists |-> TRUE, attrs |-> a]]
               ELSE UNCHANGED books
          /\ Ran("load", err, NoHandler(err))
    /\ UNCHANGED <<tableExists, walkerVars, clientVars>>

\* The update cell: get_item, response['Item'], then
\* update_item SET Rating = :rating, Version = :ver.
UpdateCell ==
    /\ \E err \in ItemCallAnswers(TRUE) :
          IF err = "none" /\ ~books[MobyKey].exists
            THEN /\ Ran("update", err, Ended("raised", "KeyError"))
                 /\ UNCHANGED books
            ELSE /\ IF err = "none"
                      THEN books' = [books EXCEPT ![MobyKey].attrs =
                                       SetAttr(SetAttr(@, "Rating", UpdateValues.rating),
                                               "Version", UpdateValues.ver)]
                      ELSE UNCHANGED books
                 /\ Ran("update", err, NoHandler(err))
    /\ UNCHANGED <<tableExists, walkerVars, clientVars>>

\* update_item(..., UpdateExpression='SET #score = :rating, Version = :newver',
\*             ConditionExpression="Version = :ver") on Moby Dick, as the
\* service carries it out for the answer err.
CondUpdateItem(err) ==
    IF err = "none"
      THEN books' = [books EXCEPT ![MobyKey].attrs =
                       SetAttr(SetAttr(@, "Rating", CondUpdateValues.rating),
                               "Version", CondUpdateValues.newver)]
      ELSE UNCHANGED books

\* ConditionExpression left out of update_item: the update is unconditional.
CondUpdateAnswersNoCondition == ItemCallAnswers(TRUE)

CondUpdateAnswers ==
    ItemCallAnswers(AttrEquals(books[MobyKey], "Version", CondUpdateValues.ver))

\* The conditional update cell (no try statement).
CondUpdateCell ==
    /\ \E err \in CondUpdateAnswers :
          /\ CondUpdateItem(err)
          /\ Ran("cond_update", err, NoHandler(err))
    /\ UNCHANGED <<tableExists, walkerVars, clientVars>>

\* The cell that runs the same conditional update again, in a try statement.
CondUpdateRepeatCell ==
    /\ \E err \in CondUpdateAnswers :
          /\ CondUpdateItem(err)
          /\ Ran("cond_update_repeat", err, CondUpdateRepeatHandler(err))
    /\ UNCHANGED <<tableExists, walkerVars, clientVars>>

\* The delete table cell.
DeleteTableCell ==
    /\ \E err \in DeleteTableAnswers :
          /\ IF err = "none"
               THEN tableExists' = FALSE /\ books' = EmptyTable
               ELSE UNCHANGED <<tableExists, books>>
          /\ Ran("delete", err, DeleteTableHandler(err))
    /\ UNCHANGED <<walkerVars, clientVars>>

\* The user runs the table cells in any order, any number of times.
NextCells ==
    \/ CreateTableCell
    \/ PutItemCondCell
    \/ LoadBooksCell
    \/ UpdateCell
    \/ CondUpdateCell
    \/ CondUpdateRepeatCell
    \/ DeleteTableCell

NotebookSpec == Init /\ [][NextCells]_vars

(* ------------------------- concurrent clients -------------------------- *)
Clients == 1..NumClients

NoClientIssued == \A c \in Clients : clientPc[c] = "ready"

\* Before the clients start, the user prepares the table with the cells.
Prepare ==
    /\ NoClientIssued
    /\ NextCells

\* Client c calls table.update_item(..., ConditionExpression="Version = :ver"):
\* its request is on its way to the service.
ClientIssue(c) ==
    /\ clientPc[c] = "ready"
    /\ clientPc' = [clientPc EXCEPT ![c] = "sent"]
    /\ startItem' = IF NoClientIssued THEN books[MobyKey] ELSE startItem
    /\ UNCHANGED <<clientResult, writers, walkerVars, cellVars>>

\* The service carries out client c's request: the condition is evaluated
\* and the update applied in one step, and c gets the answer.
ServiceApply(c) ==
    /\ clientPc[c] = "sent"
    /\ \E err \in CondUpdateAnswers :
          /\ CondUpdateItem(err)
          /\ clientResult' = [clientResult EXCEPT ![c] = err]
          /\ writers' = IF err = "none" THEN writers \cup {c} ELSE writers
    /\ clientPc' = [clientPc EXCEPT ![c] = "done"]
    /\ UNCHANGED <<tableExists, lastCell, svcError, outcome, cellRaised,
                   prevCell, prevOutcome, startItem, walkerVars>>

NextClients ==
    \/ Prepare
    \/ \E c \in Clients : ClientIssue(c)
    \/ \E c \in Clients : ServiceApply(c)

ClientsSpec == Init /\ [][NextClients]_vars

(* ------------------------------- claims -------------------------------- *)
\* The walker has just left the loop of shard shardIdx.
LeftShard == pc = "for" /\ shardIdx >= 1

\* The response the walker holds has zero records and a next cursor.
EmptyWithNext(res) == Len(res.Records) = 0 /\ HasNext(res)

\* C1: when the walker leaves a shard, the lines it printed for the shard
\* are exactly the records its fetches of the shard returned, in fetch
\* order, none dropped and none duplicated.
C1_EmitsAllFetched ==
    LeftShard => emitted[shardIdx] = FormatAll(fetched)

\* C2: under a service whose every call returns, the walk reaches "Done!".
C2_WalkTerminates == <>(pc = "done")

C2_Witness ==
    /\ pc = "done"
    /\ \E s \in 1..NumShards : report[s] = "limit"

\* C3: when the polling limit is reported for a shard, the walker has
\* performed exactly PollLimit iterations that had a next cursor and
\* printed no record.
C3_ExactlyLimitNoProgress ==
    (pc = "while" /\ ~loop /\ report[shardIdx] = "limit")
        => count - progress = PollLimit

\* C4: a fetch whose response has no next cursor makes the walker report
\* the shard closed (and leave it without another fetch).
C4_NoNextMeansClosed ==
    (LeftShard /\ ~HasNext(get_records_res)) => report[shardIdx] = "closed"

\* C5: a failed service call of the walker is not retried or absorbed: it
\* leaves the cell as a ServiceError, the walk is in the error state and not
\* at "Done!", and no step (so no further fetch) follows the failure.
C5_FailureSurfaces ==
    /\ [](fetchFailed => (pc = "error" /\ raised = "ServiceError"))
    /\ [][fetchFailed => UNCHANGED vars]_vars

C5_Witness ==
    /\ pc = "error"
    /\ fetchFailed
    /\ count > 0
    /\ lastCursor = next_iterator
    /\ lastCursor # NoCursor

\* C9: no cursor is passed to get_records twice, and every fetch is made
\* with the cursor the walker has just been given: the trim-horizon
\* iterator for the first fetch of a shard, the next cursor of the most
\* recent response for every later one.
C9_SingleUse ==
    /\ [](lastCursor # NoCursor => Unused(lastCursor, usedUpTo))
    /\ [](pc = "while" => lastCursor.shard = ShardListing[shardIdx])
    /\ [][(lastCursor' # lastCursor /\ lastCursor' # NoCursor)
            => lastCursor' = (IF pc = "first_fetch"
                                THEN TrimHorizonIterator(ShardListing[shardIdx])
                                ELSE get_records_res.NextShardIterator)]_vars

C9_Witness ==
    /\ usedUpTo >= 2
    /\ Unused(lastCursor, usedUpTo)
    /\ lastCursor.seq = count + 1

\* C10 as stated: whenever the walker holds a response with zero records
\* and a next cursor, its step on that shard prints nothing, adds one to
\* count and fetches with the returned cursor.
C10_Original ==
    [][(pc = "while" /\ EmptyWithNext(get_records_res))
         => /\ emitted' = emitted
            /\ count' = count + 1
            /\ lastCursor' = get_records_res.NextShardIterator
            /\ shardIdx' = shardIdx]_vars

\* C10 as amended: the same of every such response that a loop iteration
\* examines, that is while the polling limit has not ended the loop.
C10_EmptyBatchContinues ==
    [][(pc = "while" /\ loop /\ EmptyWithNext(get_records_res))
         => /\ emitted' = emitted
            /\ count' = count + 1
            /\ lastCursor' = get_records_res.NextShardIterator
            /\ shardIdx' = shardIdx]_vars

C10_Witness ==
    /\ pc = "while"
    /\ loop
    /\ count >= 1
    /\ fetched = <<>>
    /\ emitted[shardIdx] = <<>>
    /\ lastCursor.seq = count + 1

\* The step is a run of one of the two conditional update cells that the
\* service answered with success or with a failed condition.
CondUpdateRun ==
    /\ lastCell' \in {"cond_update", "cond_update_repeat"}
    /\ svcError' \in {"none", CCF}
    /\ <<lastCell', svcError', outcome', prevCell', prevOutcome', books'>>
         # <<lastCell, svcError, outcome, prevCell, prevOutcome, books>>

\* C6: the conditional update succeeds exactly when Moby Dick's Version is
\* 2, and then leaves Rating 1 and Version 3; otherwise it fails with
\* ConditionalCheckFailedException and leaves the item as it was.  So of
\* two runs in a row, the first succeeding, the second fails and the item
\* stays at Rating 1, Version 3.
C6_CondUpdateOnce ==
    /\ [][CondUpdateRun =>
            /\ (svcError' = "none") <=> AttrEquals(books[MobyKey], "Version", 2)
            /\ svcError' = "none" =>
                 /\ outcome' = "ok"
                 /\ AttrEquals(books'[MobyKey], "Version", 3)
                 /\ AttrEquals(books'[MobyKey], "Rating", 1)
                 /\ Cardinality(books'[MobyKey].attrs) = 2
            /\ svcError' = CCF =>
                 /\ books' = books
                 /\ outcome' = (IF lastCell' = "cond_update" THEN "raised" ELSE "handled")
                 /\ cellRaised' = (IF lastCell' = "cond_update" THEN CCF ELSE "none")]_vars
    /\ []((/\ lastCell \in {"cond_update", "cond_update_repeat"}
           /\ prevCell \in {"cond_update", "cond_update_repeat"}
           /\ prevOutcome = "ok"
           /\ svcError # OtherCode)
          => /\ svcError = CCF
             /\ books[MobyKey].attrs = {<<"Rating", 1>>, <<"Version", 3>>})

C6_Witness ==
    /\ lastCell = "cond_update_repeat"
    /\ outcome = "handled"
    /\ svcError = CCF
    /\ prevCell = "cond_update"
    /\ prevOutcome = "ok"
    /\ books[MobyKey].attrs = {<<"Rating", 1>>, <<"Version", 3>>}

\* C7: a run of the create cell that the service answers with
\* ResourceInUseException ends without an exception, as "nothing to do",
\* leaves the table and its items as they were, and the table exists after
\* it as after a successful create.
C7_CreateExistingIsNoop ==
    /\ [][(lastCell' = "create" /\ svcError' = InUse) =>
            /\ cellRaised' = "none"
            /\ outcome' = "noop"
            /\ tableExists' = tableExists
            /\ books' = books]_vars
    /\ []((lastCell = "create" /\ svcError \in {"none", InUse}) =>
            /\ tableExists
            /\ cellRaised = "none"
            /\ outcome \in {"ok", "noop"})

C7_Witness ==
    /\ lastCell = "create"
    /\ svcError = InUse
    /\ outcome = "noop"
    /\ tableExists
    /\ books[JillKey].exists
    /\ books[MobyKey].exists

\* The error code each cell classifies.
Classified(cell) ==
    IF cell = "create" THEN InUse
    ELSE IF cell = "delete" THEN NotFound
    ELSE CCF

\* C8: in the create, conditional put, conditional update and delete
\* cells, a service error other than the one the cell classifies leaves the
\* cell as an exception.
C8_OtherErrorsSurface ==
    (/\ lastCell \in {"create", "cond_put", "cond_update",
                      "cond_update_repeat", "delete"}
     /\ svcError \notin {"none", Classified(lastCell)})
        => (outcome = "raised" /\ cellRaised = svcError)

\* Every client has its answer.
AllAnswered == \A c \in Clients : clientPc[c] = "done"

\* The clients the service answered with success.
Succeeded == {c \in Clients : clientResult[c] = "none"}

\* C11: of the clients that issue the conditional update (expecting
\* Version 2, setting Version 3) at the same time, at most one succeeds in
\* every interleaving; a client answered ConditionalCheckFailedException
\* leaves the item as it was; and when the item was at Version 2 and no
\* call met a generic service error, exactly one client succeeds, all the
\* others fail the condition, and the item ends at Version 3, written by
\* that one client.
C11_AtMostOneWins ==
    /\ [](Cardinality(Succeeded) <= 1 /\ writers = Succeeded)
    /\ [][\A c \in Clients :
            (clientPc[c] = "sent" /\ clientPc'[c] = "done" /\ clientResult'[c] # "none")
                => books' = books]_vars
    /\ []((/\ AllAnswered
           /\ AttrEquals(startItem, "Version", 2)
           /\ \A c \in Clients : clientResult[c] # OtherCode)
          => /\ Cardinality(writers) = 1
             /\ \A c \in Clients \ writers : clientResult[c] = CCF
             /\ books[MobyKey].attrs = {<<"Rating", 1>>, <<"Version", 3>>})

C11_Witness ==
    /\ AllAnswered
    /\ AttrEquals(startItem, "Version", 2)
    /\ Cardinality(writers) = 1
    /\ \E c \in Clients : clientResult[c] = CCF
    /\ AttrEquals(books[MobyKey], "Version", 3)
====
